---- MODULE Spec2Model ----
(***************************************************************************)
(* Model of main.py, the Google Slides exporter: the command-line driver   *)
(* (argument validation, driver creation, queue building, the batch loop,  *)
(* driver.close()), download_slides, get_num_of_slides and                 *)
(* sanitize_filename.  Text is a sequence of one-character strings.  The   *)
(* browser, the file system and the image library are the environment:     *)
(* their answers are chosen nondeterministically.                          *)
(***************************************************************************)
EXTENDS Integers, Sequences, FiniteSets, TLC

VARIABLES
  pc,                         \* position of the main program
  argUrl,                     \* args.url   : <<>> is None, <<s>> is the string s
  argSlides,                  \* args.slides: <<>> is None, <<s>> is the string s
  driver,                     \* "none" | "open" | "closed"
  creations,                  \* calls of create_driver_instance that returned
  closes,                     \* calls of driver.close()
  presentations_to_download,  \* the queue of presentation URLs
  idx,                        \* how many queue entries the for loop has taken
  presentation,               \* the loop variable
  num_slides,                 \* download_slides: num_slides
  slides,                     \* download_slides: slides
  i,                          \* download_slides: loop variable i (iterations done)
  slide_deck,                 \* main: slide_deck
  page_title,                 \* what driver.title returned
  title,                      \* main: title
  docs,                       \* documents written, in order: [name, pages]
  shots,                      \* screenshots decoded so far (frame identities)
  log,                        \* what download_slides/scrape_title asked of the session
  helpPrinted,                \* parser.print_help() was called
  navOk,                      \* driver.get returned for the current presentation
  report,                     \* per finished presentation: [url, nav, count, title, wrote]
  raised,                     \* the uncaught exception that ended the process, if any
  fpc, fin, fout, fout2       \* harness of the pure functions (input, results)

vars == <<pc, argUrl, argSlides, driver, creations, closes,
          presentations_to_download, idx, presentation, num_slides, slides, i,
          slide_deck, page_title, title, docs, shots, log, helpPrinted, navOk,
          report, raised, fpc, fin, fout, fout2>>

mainVars == <<pc, argUrl, argSlides, driver, creations, closes,
              presentations_to_download, idx, presentation, num_slides, slides,
              i, slide_deck, page_title, title, docs, shots, log, helpPrinted,
              navOk, report, raised>>

fnVars == <<fpc, fin, fout, fout2>>

(***************************************************************************)
(* Bounds of the model.                                                    *)
(***************************************************************************)
MaxLines == 2      \* lines of the --slides file
MaxSlides == 3     \* largest slide count the indicator shows in a batch run
MaxLen == 2        \* length of the file names given to sanitize_filename
MaxTextLen == 3    \* length of the indicator texts given to get_num_of_slides

RECURSIVE StringsUpTo(_, _)
StringsUpTo(alphabet, n) ==
  IF n = 0 THEN {<<>>}
  ELSE LET shorter == StringsUpTo(alphabet, n - 1)
       IN shorter \cup {Append(s, c) : s \in shorter, c \in alphabet}

(***************************************************************************)
(* sanitize_filename                                                       *)
(***************************************************************************)
forbidden_chars_without_period ==
  <<"\"", "*", "\\", "/", "'", "|", "?", ":", "<", ">">>

forbidden_chars ==
  <<"\"", "*", "\\", "/", "'", ".", "|", "?", ":", "<", ">">>

\* Python's `x in s` for a one-character x
CharIn(x, s) == \E k \in 1..Len(s) : s[k] = x

RECURSIVE Join(_)
Join(parts) ==
  IF parts = <<>> THEN <<>> ELSE Head(parts) \o Join(Tail(parts))

sanitize_filename(filename) ==
  Join([k \in 1..Len(filename) |->
          IF ~CharIn(filename[k], forbidden_chars) THEN <<filename[k]>> ELSE <<>>])

(***************************************************************************)
(* get_num_of_slides                                                       *)
(***************************************************************************)
DigitChars == <<"0", "1", "2", "3", "4", "5", "6", "7", "8", "9">>

IsDigit(c) == CharIn(c, DigitChars)

DigitValue(c) == (CHOOSE k \in 1..Len(DigitChars) : DigitChars[k] = c) - 1

\* int(s) of a non-empty string of decimal digits
RECURSIVE int(_)
int(s) ==
  IF s = <<>> THEN 0
  ELSE int(SubSeq(s, 1, Len(s) - 1)) * 10 + DigitValue(s[Len(s)])

\* length of the longest prefix of text made of digits (the greedy \d+)
RECURSIVE DigitPrefixLen(_)
DigitPrefixLen(text) ==
  IF text = <<>> \/ ~IsDigit(Head(text)) THEN 0
  ELSE 1 + DigitPrefixLen(Tail(text))

\* re.findall("\d+", text): the maximal runs of digits, left to right
RECURSIVE findall_digits(_)
findall_digits(text) ==
  IF text = <<>> THEN <<>>
  ELSE IF ~IsDigit(Head(text)) THEN findall_digits(Tail(text))
  ELSE LET n == DigitPrefixLen(text)
       IN <<SubSeq(text, 1, n)>> \o findall_digits(SubSeq(text, n + 1, Len(text)))

LastMatch(matches) == matches[Len(matches)]

\* the subscript [0] of line 60
FirstMatch(matches) == matches[1]

\* A page as get_num_of_slides sees it: whether each element exists, and the
\* text of the slide-count indicator.
\* The try block: either a value or the exception that leaves it.
NumOfSlidesTry(page) ==
  IF ~page.filmstrip THEN [exc |-> "NoSuchElementException", val |-> 0]
  ELSE IF ~page.indicator THEN [exc |-> "NoSuchElementException", val |-> 0]
  ELSE LET matches == findall_digits(page.text)
       IN IF matches = <<>> THEN [exc |-> "IndexError", val |-> 0]
          ELSE [exc |-> "none", val |-> int(FirstMatch(matches))]

\* the except clauses of get_num_of_slides
HandledInGetNum == {"NoSuchElementException", "IndexError"}

get_num_of_slides(page) ==
  LET r == NumOfSlidesTry(page)
  IN IF r.exc \in HandledInGetNum THEN [exc |-> "none", val |-> 0] ELSE r

(***************************************************************************)
(* The command-line driver and download_slides                             *)
(***************************************************************************)
None == <<>>

\* Python truthiness of an optional string: None and "" are false
Truthy(opt) == opt # None /\ opt[1] # ""

UrlArg == "https://docs.google.com/presentation/d/0"
ListPath == "./slides-list.txt"
LineUrls == <<"line1", "line2", "line3", "line4">>

\* file.read().splitlines() of a file of k lines
FileLines(k) == SubSeq(LineUrls, 1, k)

DeckA == <<"D", "e", "c", "k", " ", "A">>
DeckB == <<"D", "e", "c", "k", " ", "B", "?", "?">>
Titles == {DeckA, DeckB}

IndicatorTexts ==
  {<<>>, <<"2", " ", "/", " ", "3">>} \cup {<<DigitChars[n + 1]>> : n \in 0..MaxSlides}

Pages ==
  {[filmstrip |-> FALSE, indicator |-> TRUE, text |-> <<>>],
   [filmstrip |-> TRUE, indicator |-> FALSE, text |-> <<>>]}
  \cup {[filmstrip |-> TRUE, indicator |-> TRUE, text |-> t] : t \in IndicatorTexts}

\* what driver.get can raise, and what open() can raise
NavExceptions == {"WebDriverException", "TimeoutException"}
OpenErrors == {"FileNotFoundError", "PermissionError"}

CaughtOnlyTimeout == {"TimeoutException"}

\* `except Exception` of download_slides
CaughtInDownload == NavExceptions

CaughtOnlyFileNotFound == {"FileNotFoundError"}

\* `except OSError` of the main program
CaughtInOpen == OpenErrors

NoRaise == [at |-> "", exc |-> ""]
Raise(at, exc) == [at |-> at, exc |-> exc]

Ev(op) == [op |-> op, n |-> 0]
Shot(n) == [op |-> "shot", n |-> n]

FileName(t) == t \o <<".", "p", "d", "f">>

\* nothing has run yet
FreshProcess ==
  /\ driver = "none"
  /\ creations = 0
  /\ closes = 0
  /\ presentations_to_download = <<>>
  /\ idx = 0
  /\ presentation = ""
  /\ num_slides = 0
  /\ slides = <<>>
  /\ i = 0
  /\ slide_deck = <<>>
  /\ page_title = <<>>
  /\ title = <<>>
  /\ docs = <<>>
  /\ shots = 0
  /\ log = <<>>
  /\ helpPrinted = FALSE
  /\ navOk = FALSE
  /\ report = <<>>
  /\ raised = NoRaise

\* line 149: the arguments are parsed
InitMain ==
  /\ pc = "args"
  /\ argUrl \in {None, <<"">>, <<UrlArg>>}
  /\ argSlides \in {None, <<"">>, <<ListPath>>}
  /\ FreshProcess

IdleFn == fpc = "off" /\ fin = <<>> /\ fout = <<>> /\ fout2 = <<>>

Init == InitMain /\ IdleFn

\* lines 151-152: parser.error exits the process
ArgsRejected ==
  /\ pc = "args"
  /\ argSlides = None /\ argUrl = None
  /\ pc' = "usage"
  /\ UNCHANGED <<argUrl, argSlides, driver, creations, closes,
                 presentations_to_download, idx, presentation, num_slides,
                 slides, i, slide_deck, page_title, title, docs, shots, log,
                 helpPrinted, navOk, report, raised, fpc, fin, fout, fout2>>

ArgsAccepted ==
  /\ pc = "args"
  /\ ~(argSlides = None /\ argUrl = None)
  /\ pc' = "create"
  /\ UNCHANGED <<argUrl, argSlides, driver, creations, closes,
                 presentations_to_download, idx, presentation, num_slides,
                 slides, i, slide_deck, page_title, title, docs, shots, log,
                 helpPrinted, navOk, report, raised, fpc, fin, fout, fout2>>

\* line 154, create_driver_instance returns
CreateDriver ==
  /\ pc = "create"
  /\ driver' = "open"
  /\ creations' = creations + 1
  /\ pc' = "queue_url"
  /\ UNCHANGED <<argUrl, argSlides, closes, presentations_to_download, idx,
                 presentation, num_slides, slides, i, slide_deck, page_title,
                 title, docs, shots, log, helpPrinted, navOk, report,
                 raised, fpc, fin, fout, fout2>>

\* line 154, the driver cannot be provisioned or launched: uncaught
CreateDriverFails ==
  /\ pc = "create"
  /\ pc' = "crashed"
  /\ raised' = Raise("create_driver_instance", "SessionNotCreatedException")
  /\ UNCHANGED <<argUrl, argSlides, driver, creations, closes,
                 presentations_to_download, idx, presentation, num_slides,
                 slides, i, slide_deck, page_title, title, docs, shots, log,
                 helpPrinted, navOk, report, fpc, fin, fout, fout2>>

\* lines 156-159
QueueUrl ==
  /\ pc = "queue_url"
  /\ presentations_to_download' =
       IF Truthy(argUrl) THEN Append(<<>>, argUrl[1]) ELSE <<>>
  /\ pc' = "queue_slides"
  /\ UNCHANGED <<argUrl, argSlides, driver, creations, closes, idx,
                 presentation, num_slides, slides, i, slide_deck, page_title,
                 title, docs, shots, log, helpPrinted, navOk, report,
                 raised, fpc, fin, fout, fout2>>

\* line 161, args.slides is None or empty
NoSlidesFile ==
  /\ pc = "queue_slides"
  /\ ~Truthy(argSlides)
  /\ pc' = "loop"
  /\ UNCHANGED <<argUrl, argSlides, driver, creations, closes,
                 presentations_to_download, idx, presentation, num_slides,
                 slides, i, slide_deck, page_title, title, docs, shots, log,
                 helpPrinted, navOk, report, raised, fpc, fin, fout, fout2>>

\* lines 163-164, the file opens and holds k lines
ReadSlidesFile ==
  /\ pc = "queue_slides"
  /\ Truthy(argSlides)
  /\ \E k \in 0..MaxLines :
       presentations_to_download' = presentations_to_download \o FileLines(k)
  /\ pc' = "loop"
  /\ UNCHANGED <<argUrl, argSlides, driver, creations, closes, idx,
                 presentation, num_slides, slides, i, slide_deck, page_title,
                 title, docs, shots, log, helpPrinted, navOk, report,
                 raised, fpc, fin, fout, fout2>>

\* lines 163-167, open() raises
OpenSlidesFileFails ==
  /\ pc = "queue_slides"
  /\ Truthy(argSlides)
  /\ \E e \in OpenErrors :
       IF e \in CaughtInOpen
       THEN /\ helpPrinted' = TRUE
            /\ pc' = "loop"
            /\ raised' = raised
       ELSE /\ helpPrinted' = helpPrinted
            /\ pc' = "crashed"
            /\ raised' = Raise("open", e)
  /\ UNCHANGED <<argUrl, argSlides, driver, creations, closes,
                 presentations_to_download, idx, presentation, num_slides,
                 slides, i, slide_deck, page_title, title, docs, shots, log,
                 navOk, report, fpc, fin, fout, fout2>>

\* line 169, the for loop takes the next entry of the queue
NextPresentation ==
  /\ pc = "loop"
  /\ idx < Len(presentations_to_download)
  /\ idx' = idx + 1
  /\ presentation' = presentations_to_download[idx + 1]
  /\ pc' = "get"
  /\ UNCHANGED <<argUrl, argSlides, driver, creations, closes,
                 presentations_to_download, num_slides, slides, i, slide_deck,
                 page_title, title, docs, shots, log, helpPrinted, navOk,
                 report, raised, fpc, fin, fout, fout2>>

\* line 169, the queue is exhausted
LoopDone ==
  /\ pc = "loop"
  /\ idx >= Len(presentations_to_download)
  /\ pc' = "close"
  /\ UNCHANGED <<argUrl, argSlides, driver, creations, closes,
                 presentations_to_download, idx, presentation, num_slides,
                 slides, i, slide_deck, page_title, title, docs, shots, log,
                 helpPrinted, navOk, report, raised, fpc, fin, fout, fout2>>

\* lines 76-77, driver.get returns
GetPage ==
  /\ pc = "get"
  /\ navOk' = TRUE
  /\ log' = <<Ev("get")>>
  /\ num_slides' = 0
  /\ slides' = <<>>
  /\ i' = 0
  /\ pc' = "count"
  /\ UNCHANGED <<argUrl, argSlides, driver, creations, closes,
                 presentations_to_download, idx, presentation, slide_deck,
                 page_title, title, docs, shots, helpPrinted, report,
                 raised, fpc, fin, fout, fout2>>

\* lines 76-80, driver.get raises
GetPageFails ==
  /\ pc = "get"
  /\ navOk' = FALSE
  /\ log' = <<Ev("get")>>
  /\ num_slides' = 0
  /\ slides' = <<>>
  /\ i' = 0
  /\ \E e \in NavExceptions :
       IF e \in CaughtInDownload
       THEN /\ slide_deck' = <<>>
            /\ pc' = "title"
            /\ raised' = raised
       ELSE /\ slide_deck' = slide_deck
            /\ pc' = "crashed"
            /\ raised' = Raise("driver.get", e)
  /\ UNCHANGED <<argUrl, argSlides, driver, creations, closes,
                 presentations_to_download, idx, presentation, page_title,
                 title, docs, shots, helpPrinted, report, fpc, fin, fout, fout2>>

\* lines 82-83, get_num_of_slides on whatever page the browser shows
CountSlides ==
  /\ pc = "count"
  /\ \E page \in Pages :
       LET r == get_num_of_slides(page)
       IN IF r.exc = "none"
          THEN /\ num_slides' = r.val
               /\ pc' = "fullscreen"
               /\ raised' = raised
          ELSE /\ num_slides' = num_slides
               /\ pc' = "crashed"
               /\ raised' = Raise("get_num_of_slides", r.exc)
  /\ slides' = <<>>
  /\ log' = Append(log, Ev("count"))
  /\ UNCHANGED <<argUrl, argSlides, driver, creations, closes,
                 presentations_to_download, idx, presentation, i, slide_deck,
                 page_title, title, docs, shots, helpPrinted, navOk, report,
                 fpc, fin, fout, fout2>>

\* lines 84-89, Ctrl+F5 and the one-second sleep
EnterFullscreen ==
  /\ pc = "fullscreen"
  /\ log' = Append(log, Ev("CONTROL+F5"))
  /\ i' = 0
  /\ pc' = "walk"
  /\ UNCHANGED <<argUrl, argSlides, driver, creations, closes,
                 presentations_to_download, idx, presentation, num_slides,
                 slides, slide_deck, page_title, title, docs, shots,
                 helpPrinted, navOk, report, raised, fpc, fin, fout, fout2>>

InRangeOneShort(k, n) == k < n - 1

\* line 91, range(0, num_slides) still has a value after k iterations
InRange(k, n) == k < n

PrependSlide(deck, frame) == <<frame>> \o deck

\* line 93, slides.append
AppendSlide(deck, frame) == Append(deck, frame)

\* lines 92-93, screenshot_slide returns a new image
CaptureSlide ==
  /\ pc = "walk"
  /\ InRange(i, num_slides)
  /\ shots' = shots + 1
  /\ slides' = AppendSlide(slides, shots + 1)
  /\ log' = Append(log, Shot(shots + 1))
  /\ pc' = "advance"
  /\ UNCHANGED <<argUrl, argSlides, driver, creations, closes,
                 presentations_to_download, idx, presentation, num_slides, i,
                 slide_deck, page_title, title, docs, helpPrinted, navOk,
                 report, raised, fpc, fin, fout, fout2>>

\* lines 92, 111-113, the screenshot or its decoding raises: uncaught
CaptureSlideFails ==
  /\ pc = "walk"
  /\ InRange(i, num_slides)
  /\ pc' = "crashed"
  /\ raised' = Raise("screenshot_slide", "UnidentifiedImageError")
  /\ UNCHANGED <<argUrl, argSlides, driver, creations, closes,
                 presentations_to_download, idx, presentation, num_slides,
                 slides, i, slide_deck, page_title, title, docs, shots, log,
                 helpPrinted, navOk, report, fpc, fin, fout, fout2>>

\* lines 94-96
AdvanceSlide ==
  /\ pc = "advance"
  /\ log' = Append(log, Ev("ARROW_DOWN"))
  /\ i' = i + 1
  /\ pc' = "walk"
  /\ UNCHANGED <<argUrl, argSlides, driver, creations, closes,
                 presentations_to_download, idx, presentation, num_slides,
                 slides, slide_deck, page_title, title, docs, shots,
                 helpPrinted, navOk, report, raised, fpc, fin, fout, fout2>>

NoKeysAfterLoop == <<>>

\* lines 98-100, the keys sent after the loop
KeysAfterLoop == <<Ev("ESCAPE")>>

\* lines 98-101, and the assignment of line 170
ExitFullscreen ==
  /\ pc = "walk"
  /\ ~InRange(i, num_slides)
  /\ log' = log \o KeysAfterLoop
  /\ slide_deck' = slides
  /\ pc' = "title"
  /\ UNCHANGED <<argUrl, argSlides, driver, creations, closes,
                 presentations_to_download, idx, presentation, num_slides,
                 slides, i, page_title, title, docs, shots, helpPrinted,
                 navOk, report, raised, fpc, fin, fout, fout2>>

\* line 171
ScrapeTitle ==
  /\ pc = "title"
  /\ \E t \in Titles :
       /\ page_title' = t
       /\ title' = sanitize_filename(t)
  /\ log' = Append(log, Ev("title"))
  /\ pc' = "save"
  /\ UNCHANGED <<argUrl, argSlides, driver, creations, closes,
                 presentations_to_download, idx, presentation, num_slides,
                 slides, i, slide_deck, docs, shots, helpPrinted, navOk,
                 report, raised, fpc, fin, fout, fout2>>

SaveUnguarded(deck) == TRUE

\* line 172
SaveGuard(deck) == Len(deck) > 0

SavedPagesWithoutBase(deck) == SubSeq(deck, 2, Len(deck))

\* line 173: the base page and append_images=slide_deck[1:]
SavedPages(deck) == <<deck[1]>> \o SubSeq(deck, 2, Len(deck))

Outcome(wrote) ==
  [url |-> presentation, nav |-> navOk,
   count |-> IF navOk THEN num_slides ELSE 0 - 1,
   title |-> page_title, wrote |-> wrote]

\* lines 172-173, the guard passes; slide_deck[0] of an empty list raises
SaveDeck ==
  /\ pc = "save"
  /\ SaveGuard(slide_deck)
  /\ IF slide_deck = <<>>
     THEN /\ pc' = "crashed"
          /\ raised' = Raise("slide_deck[0]", "IndexError")
          /\ UNCHANGED <<docs, report>>
     ELSE /\ docs' = Append(docs, [name |-> FileName(title),
                                   pages |-> SavedPages(slide_deck),
                                   url |-> presentation])
          /\ report' = Append(report, Outcome(TRUE))
          /\ pc' = "loop"
          /\ raised' = raised
  /\ UNCHANGED <<argUrl, argSlides, driver, creations, closes,
                 presentations_to_download, idx, presentation, num_slides,
                 slides, i, slide_deck, page_title, title, shots, log,
                 helpPrinted, navOk, fpc, fin, fout, fout2>>

\* line 172, the guard fails
SkipSave ==
  /\ pc = "save"
  /\ ~SaveGuard(slide_deck)
  /\ report' = Append(report, Outcome(FALSE))
  /\ pc' = "loop"
  /\ UNCHANGED <<argUrl, argSlides, driver, creations, closes,
                 presentations_to_download, idx, presentation, num_slides,
                 slides, i, slide_deck, page_title, title, docs, shots, log,
                 helpPrinted, navOk, raised, fpc, fin, fout, fout2>>

\* line 175
CloseDriver ==
  /\ pc = "close"
  /\ driver' = "closed"
  /\ closes' = closes + 1
  /\ pc' = "done"
  /\ UNCHANGED <<argUrl, argSlides, creations, presentations_to_download, idx,
                 presentation, num_slides, slides, i, slide_deck, page_title,
                 title, docs, shots, log, helpPrinted, navOk, report,
                 raised, fpc, fin, fout, fout2>>

Next ==
  \/ ArgsRejected
  \/ ArgsAccepted
  \/ CreateDriver
  \/ CreateDriverFails
  \/ QueueUrl
  \/ NoSlidesFile
  \/ ReadSlidesFile
  \/ OpenSlidesFileFails
  \/ NextPresentation
  \/ LoopDone
  \/ GetPage
  \/ GetPageFails
  \/ CountSlides
  \/ EnterFullscreen
  \/ CaptureSlide
  \/ CaptureSlideFails
  \/ AdvanceSlide
  \/ ExitFullscreen
  \/ ScrapeTitle
  \/ SaveDeck
  \/ SkipSave
  \/ CloseDriver

Spec == Init /\ [][Next]_vars

(***************************************************************************)
(* The pure functions on their own: sanitize_filename applied to every     *)
(* short file name, then to its own result; get_num_of_slides applied to   *)
(* every page with a short indicator text.                                 *)
(***************************************************************************)
NameAlphabet ==
  {"\"", "*", "\\", "/", "'", ".", "|", "?", ":", "<", ">", "a", " "}

TextAlphabet == {"0", "1", "2", "5", "/", " "}

FiveOfTwelve == <<"5", " ", "/", " ", "1", "2">>

CountTexts == StringsUpTo(TextAlphabet, MaxTextLen) \cup {FiveOfTwelve}

CountPages ==
  {[filmstrip |-> f, indicator |-> t, text |-> x] :
     f \in BOOLEAN, t \in BOOLEAN, x \in CountTexts}

MainOff ==
  /\ pc = "off"
  /\ argUrl = None
  /\ argSlides = None
  /\ FreshProcess

InitSanitize ==
  /\ MainOff
  /\ fpc = "in"
  /\ fin \in StringsUpTo(NameAlphabet, MaxLen)
  /\ fout = <<>>
  /\ fout2 = <<>>

\* title = sanitize_filename(...)
Sanitize ==
  /\ fpc = "in"
  /\ fout' = sanitize_filename(fin)
  /\ fpc' = "once"
  /\ UNCHANGED <<mainVars, fin, fout2>>

\* the sanitized name is sanitized again
SanitizeAgain ==
  /\ fpc = "once"
  /\ fout2' = sanitize_filename(fout)
  /\ fpc' = "twice"
  /\ UNCHANGED <<mainVars, fin, fout>>

NextSanitize == Sanitize \/ SanitizeAgain

SpecSanitize == InitSanitize /\ [][NextSanitize]_vars

InitCount ==
  /\ MainOff
  /\ fpc = "in"
  /\ fin \in CountPages
  /\ fout = <<>>
  /\ fout2 = <<>>

\* num_slides = get_num_of_slides(driver)
CallGetNum ==
  /\ fpc = "in"
  /\ fout' = get_num_of_slides(fin)
  /\ fpc' = "returned"
  /\ UNCHANGED <<mainVars, fin, fout2>>

NextCount == CallGetNum

SpecCount == InitCount /\ [][NextCount]_vars

(***************************************************************************)
(* Properties                                                              *)
(***************************************************************************)
Positions(op) == {k \in DOMAIN log : log[k].op = op}

\* download_slides has returned for the presentation last taken from the queue
Returned == pc \in {"title", "save", "loop", "close", "done"}

WalkEvents == SelectSeq(log, LAMBDA e : e.op \in {"shot", "ARROW_DOWN"})

\* C1: after a successful navigation the walk is capture, advance, capture,
\* advance, ... : captures and ARROW_DOWN presses alternate starting with a
\* capture, and when download_slides has returned there are exactly
\* num_slides of each and the returned list has num_slides frames.
C1_WalkCapturesAndAdvancesN ==
  /\ \A k \in DOMAIN WalkEvents :
       WalkEvents[k].op = IF k % 2 = 1 THEN "shot" ELSE "ARROW_DOWN"
  /\ (navOk /\ Returned) =>
       /\ num_slides >= 0
       /\ Cardinality(Positions("shot")) = num_slides
       /\ Cardinality(Positions("ARROW_DOWN")) = num_slides
       /\ Len(slide_deck) = num_slides

C1_Witness ==
  navOk /\ pc = "title" /\ num_slides >= 2 /\ Len(slide_deck) = num_slides

Written == SelectSeq(report, LAMBDA r : r.wrote)

\* C2: a presentation whose slide count is zero gets no document, every
\* document written has at least one page, the documents are exactly the
\* presentations whose save step ran, and slide_deck[0] never raises.
C2_NoDocumentForZeroCount ==
  /\ \A k \in DOMAIN report : report[k].count = 0 => ~report[k].wrote
  /\ \A k \in DOMAIN docs : docs[k].pages # <<>>
  /\ Len(docs) = Len(Written)
  /\ raised.at # "slide_deck[0]"

C2_Witness ==
  \E k \in DOMAIN report :
    report[k].nav /\ report[k].count = 0 /\ ~report[k].wrote

\* C3: when driver.get raises, download_slides returns the empty list having
\* asked nothing else of the session (no count, no key, no screenshot), no
\* document is written for that presentation, the exception does not end the
\* process, presentations are finished in queue order, and a run that
\* reaches the end has processed every queue entry.
C3_NavigationFailureIsSkipped ==
  /\ (~navOk /\ pc \in {"title", "save"}) =>
       /\ slide_deck = <<>>
       /\ \A k \in DOMAIN log : log[k].op \in {"get", "title"}
  /\ \A k \in DOMAIN report : ~report[k].nav => ~report[k].wrote
  /\ raised.at # "driver.get"
  /\ \A k \in DOMAIN report : report[k].url = presentations_to_download[k]
  /\ pc = "done" => Len(report) = Len(presentations_to_download)

C3_Witness ==
  /\ pc = "done"
  /\ \E k \in DOMAIN report :
       /\ ~report[k].nav
       /\ k + 1 \in DOMAIN report
       /\ report[k + 1].wrote

ClaimDigit ==
  ("0" :> 0) @@ ("1" :> 1) @@ ("2" :> 2) @@ ("3" :> 3) @@ ("4" :> 4) @@
  ("5" :> 5) @@ ("6" :> 6) @@ ("7" :> 7) @@ ("8" :> 8) @@ ("9" :> 9)

HasDigit(text) == \E k \in DOMAIN text : text[k] \in DOMAIN ClaimDigit

FirstRunStart(text) ==
  CHOOSE a \in DOMAIN text :
    /\ text[a] \in DOMAIN ClaimDigit
    /\ \A b \in 1..(a - 1) : text[b] \notin DOMAIN ClaimDigit

FirstRunEnd(text) ==
  CHOOSE e \in FirstRunStart(text)..Len(text) :
    /\ \A k \in FirstRunStart(text)..e : text[k] \in DOMAIN ClaimDigit
    /\ e = Len(text) \/ text[e + 1] \notin DOMAIN ClaimDigit

RECURSIVE Pow10(_)
Pow10(n) == IF n = 0 THEN 1 ELSE 10 * Pow10(n - 1)

RECURSIVE PlaceValueSum(_, _, _)
PlaceValueSum(text, a, e) ==
  IF a > e THEN 0
  ELSE ClaimDigit[text[a]] * Pow10(e - a) + PlaceValueSum(text, a + 1, e)

\* C4: get_num_of_slides raises nothing; it returns 0 when the filmstrip or
\* the indicator element is missing and when the indicator text has no
\* digit; otherwise it returns the value of the first run of digits of the
\* text (5 for "5 / 12").
C4_CountIsFirstDigitRun ==
  fpc = "returned" =>
    /\ fout.exc = "none"
    /\ IF ~fin.filmstrip \/ ~fin.indicator \/ ~HasDigit(fin.text)
       THEN fout.val = 0
       ELSE fout.val =
              PlaceValueSum(fin.text, FirstRunStart(fin.text), FirstRunEnd(fin.text))
    /\ (fin.filmstrip /\ fin.indicator /\ fin.text = FiveOfTwelve) => fout.val = 5

C4_Witness ==
  /\ fpc = "returned"
  /\ fin.filmstrip /\ fin.indicator /\ fin.text = FiveOfTwelve
  /\ fout.val = 5

ClaimForbidden == {"\"", "*", "\\", "/", "'", ".", "|", "?", ":", "<", ">"}

Allowed(c) == c \notin ClaimForbidden

\* C5: the result of sanitize_filename holds none of " * \ / ' . | ? : < >,
\* it is the input with exactly those characters left out (the others in
\* their order), a clean name comes back unchanged, and sanitizing the
\* result again changes nothing.
C5_SanitizeRemovesForbidden ==
  /\ fpc \in {"once", "twice"} =>
       /\ \A k \in DOMAIN fout : fout[k] \notin ClaimForbidden
       /\ fout = SelectSeq(fin, Allowed)
       /\ (\A k \in DOMAIN fin : fin[k] \notin ClaimForbidden) => fout = fin
  /\ fpc = "twice" => fout2 = fout

C5_Witness ==
  /\ fpc = "twice"
  /\ fin = <<".", "a">>
  /\ fout = <<"a">>
  /\ fout2 = <<"a">>

\* the end-to-end scenario: two queue entries, counts 3 and 0, titles
\* "Deck A" and "Deck B??", the run is over
EndToEndScenario ==
  /\ pc = "done"
  /\ Len(presentations_to_download) = 2
  /\ Len(report) = 2
  /\ report[1].nav /\ report[1].count = 3 /\ report[1].title = DeckA
  /\ report[2].nav /\ report[2].count = 0 /\ report[2].title = DeckB

\* C6 as stated: the one document of the scenario is named DeckA.pdf
C6_DocumentNamedDeckA ==
  EndToEndScenario =>
    /\ Len(docs) = 1
    /\ docs[1].name = <<"D", "e", "c", "k", "A", ".", "p", "d", "f">>
    /\ Len(docs[1].pages) = 3

\* C6: in the end-to-end scenario the run writes exactly one document, for
\* the first entry, named "Deck A.pdf" (the space is kept), with 3 pages,
\* and none for the second entry.
C6_DocumentNamedDeckSpaceA ==
  EndToEndScenario =>
    /\ Len(docs) = 1
    /\ docs[1].url = presentations_to_download[1]
    /\ docs[1].name = <<"D", "e", "c", "k", " ", "A", ".", "p", "d", "f">>
    /\ Len(docs[1].pages) = 3

C6_Witness == EndToEndScenario /\ Len(docs) = 1

QueuedFromUrl == IF Truthy(argUrl) THEN <<argUrl[1]>> ELSE <<>>

\* C7: when open() raises, the exception does not end the process, the help
\* text is printed, the queue stays what --url put in it, the loop runs
\* over that queue to the end, and with no --url the run writes no document
\* and ends without any exception.
C7_OpenFailureIsRecovered ==
  /\ raised.at # "open"
  /\ helpPrinted =>
       /\ pc \in {"loop", "get", "count", "fullscreen", "walk", "advance",
                  "title", "save", "close", "done", "crashed"}
       /\ presentations_to_download = QueuedFromUrl
       /\ pc = "done" => Len(report) = Len(presentations_to_download)
       /\ ~Truthy(argUrl) =>
            /\ docs = <<>>
            /\ raised = NoRaise
            /\ pc \in {"loop", "close", "done"}

C7_Witness ==
  /\ helpPrinted
  /\ pc = "done"
  /\ Truthy(argUrl)
  /\ Len(report) = 1

\* C8: the session is created at most once, only after the arguments passed
\* validation and before any presentation is taken; it is closed at most
\* once, only after the whole queue was processed, and nothing follows the
\* close; and every run that created the session and has ended closed it.
C8_SessionClosedByEveryRun ==
  /\ creations <= 1
  /\ closes <= 1
  /\ creations = 1 => pc \notin {"args", "usage", "create"}
  /\ idx > 0 => creations = 1
  /\ closes = 1 =>
       /\ pc = "done"
       /\ idx = Len(presentations_to_download)
       /\ Len(report) = Len(presentations_to_download)
  /\ (pc \in {"done", "crashed"} /\ creations = 1) => closes = 1

RECURSIVE AllPages(_)
AllPages(ds) == IF ds = <<>> THEN <<>> ELSE Head(ds).pages \o AllPages(Tail(ds))

ShotFrames ==
  LET sh == SelectSeq(log, LAMBDA e : e.op = "shot")
  IN [k \in 1..Len(sh) |-> sh[k].n]

\* C9: a presentation is written exactly when its walk captured N >= 1
\* frames, its document has N pages, the pages are the frames in the order
\* they were captured (frames are numbered as they are taken), and the
\* presentations are taken one at a time in queue order, the --url value
\* first and then the lines of the file in file order.
C9_PagesInCaptureOrder ==
  /\ Len(docs) = Len(Written)
  /\ \A k \in DOMAIN report :
       report[k].wrote <=> (report[k].nav /\ report[k].count >= 1)
  /\ \A k \in DOMAIN docs :
       /\ docs[k].url = Written[k].url
       /\ Len(docs[k].pages) = Written[k].count
  /\ AllPages(docs) = [k \in 1..Len(AllPages(docs)) |-> k]
  /\ (pc = "loop" /\ report # <<>> /\ report[Len(report)].wrote) =>
       docs[Len(docs)].pages = ShotFrames
  /\ \A k \in DOMAIN report : report[k].url = presentations_to_download[k]
  /\ Len(report) <= idx /\ idx <= Len(report) + 1
  /\ pc \in {"loop", "get", "count", "fullscreen", "walk", "advance", "title",
             "save", "close", "done"} =>
       \E j \in 0..Len(LineUrls) :
         presentations_to_download = QueuedFromUrl \o SubSeq(LineUrls, 1, j)

C9_Witness ==
  /\ pc = "done"
  /\ Truthy(argUrl)
  /\ Len(docs) = 2
  /\ Len(docs[1].pages) = 2
  /\ Len(docs[2].pages) = 3

\* C10: every capture comes after the Ctrl+F5 of its walk and before any
\* ESCAPE; once download_slides has returned after a successful navigation
\* (also with no slide) it has sent exactly one Ctrl+F5 and exactly one
\* ESCAPE, the ESCAPE after the Ctrl+F5 and after every ARROW_DOWN, and
\* before the title is read and before the next navigation starts.
C10_FullscreenEnteredAndLeftOnce ==
  /\ \A k \in Positions("shot") :
       /\ \E f \in Positions("CONTROL+F5") : f < k
       /\ \A e \in Positions("ESCAPE") : k < e
  /\ (navOk /\ (Returned \/ pc = "get")) =>
       /\ Cardinality(Positions("CONTROL+F5")) = 1
       /\ Cardinality(Positions("ESCAPE")) = 1
       /\ \A e \in Positions("ESCAPE") :
            /\ \A d \in Positions("ARROW_DOWN") \cup Positions("CONTROL+F5") : d < e
            /\ \A t \in Positions("title") : e < t

C10_Witness ==
  /\ navOk
  /\ pc = "get"
  /\ num_slides = 0
  /\ Cardinality(Positions("ESCAPE")) = 1

====
